---------------------------- MODULE Spec2Model ----------------------------
(***************************************************************************)
(* A model of aiorocketchat's realtime request layer: the sequence        *)
(* counter, the request catalogue (methods.py), the response field        *)
(* extractor (response.py, protocol.py), the exception taxonomy           *)
(* (exceptions.py) and the push handlers built by the subscribe requests. *)
(***************************************************************************)
EXTENDS Integers, Sequences, FiniteSets, TLC

VARIABLES
    sequence_counter,  \* the class attribute `sequence_counter`, per class that holds one
    tasks,             \* each logical task: where it is in a `call`, and what it got
    issued,            \* history: every value inc_sequence returned, in order
    transport_log,     \* history: every invocation of the transport, in order
    subscriptions,     \* the handlers registered with create_subscription, in order
    delivered,         \* history: every push frame handed to a handler, with its outcome
    callback_calls,    \* history: every invocation of a user callback, in order
    gf,                \* a harness applying get_field to one payload and one path
    harness            \* a harness applying parse_response or get_message on its own

vars == <<sequence_counter, tasks, issued, transport_log, subscriptions,
          delivered, callback_calls, gf, harness>>

---------------------------------------------------------------------------
(* Python values.  Every value is a record of one shape, told apart by its *)
(* tag `t`: None, bool and int (in n), str (in s), list (in items), dict   *)
(* and the two namedtuples of response.py (in m, keyed by name).           *)

PyValue(t, s, n, items, m) == [t |-> t, s |-> s, n |-> n, items |-> items, m |-> m]
PyNone == PyValue("NoneType", "", 0, <<>>, <<>>)
PyBool(b) == PyValue("bool", "", IF b THEN 1 ELSE 0, <<>>, <<>>)
PyInt(n) == PyValue("int", "", n, <<>>, <<>>)
PyStr(s) == PyValue("str", s, 0, <<>>, <<>>)
PyList(items) == PyValue("list", "", 0, items, <<>>)
PyDict(m) == PyValue("dict", "", 0, <<>>, m)

\* bool(v): what `if v` and `v or None` test.
Truthy(v) ==
    CASE v.t = "NoneType" -> FALSE
      [] v.t \in {"bool", "int"} -> v.n # 0
      [] v.t = "str" -> v.s # ""
      [] v.t = "list" -> v.items # <<>>
      [] v.t = "dict" -> DOMAIN v.m # {}
      [] OTHER -> TRUE

\* How an evaluation ends: it returns a value, or raises an exception of
\* class `exc` constructed with the argument `value`.
Return(v) == [kind |-> "return", exc |-> "", value |-> v]
Raise(exc, v) == [kind |-> "raise", exc |-> exc, value |-> v]

---------------------------------------------------------------------------
(* response.py *)

\* TransportResponse.__init__
TransportResponse(content) == IF content = PyNone THEN PyDict(<<>>) ELSE content

\* content.get(field, {}): only a dict has `get`.
dict_get(content, field) ==
    IF content.t = "dict"
    THEN Return(IF field \in DOMAIN content.m THEN content.m[field] ELSE PyDict(<<>>))
    ELSE Raise("AttributeError", PyStr("get"))

\* The loop of get_field over the path, stopped by the first exception.
RECURSIVE get_field_loop(_, _)
get_field_loop(content, fields) ==
    IF fields = <<>> THEN Return(content)
    ELSE LET step == dict_get(content, Head(fields))
         IN  IF step.kind = "raise" THEN step
             ELSE get_field_loop(step.value, Tail(fields))

\* A mutant: the last line returns `content`, without `or None`.
get_field_no_or_none(content, fields) == get_field_loop(content, fields)

\* TransportResponse.get_field (and protocol.Response.get_field, the same code)
get_field(content, fields) ==
    LET walked == get_field_loop(content, fields)
    IN  IF walked.kind = "raise" THEN walked
        ELSE Return(IF Truthy(walked.value) THEN walked.value ELSE PyNone)

BaseResponse(id) == PyValue("BaseResponse", "", 0, <<>>, "id" :> id)
Channel(id, type) == PyValue("Channel", "", 0, <<>>, ("id" :> id) @@ ("type" :> type))

---------------------------------------------------------------------------
(* exceptions.py *)

OperationErrors ==
    {"RocketLoginError", "RocketConnectError", "RocketResumeError",
     "RocketGetChannelsError", "RocketSendMessageError", "RocketSendReactionError",
     "RocketSendTypingEventError", "RocketSubscribeToChannelMessagesError",
     "RocketSubscribeToChannelChangesError", "RocketUnsubscribeError"}

\* The base class each exception class names (builtins derive from Exception).
ExceptionBase(exc) ==
    IF exc \in OperationErrors THEN "RocketChatBaseException"
    ELSE IF exc = "Exception" THEN "BaseException"
    ELSE "Exception"

RECURSIVE IsSubclass(_, _)
IsSubclass(exc, base) ==
    \/ exc = base
    \/ exc # "BaseException" /\ IsSubclass(ExceptionBase(exc), base)

---------------------------------------------------------------------------
(* methods.py: the request classes and the sequence counter *)

CounterOwner == "BaseRealtimeRequestAbstract"

Requests ==
    {"Connect", "Resume", "Login", "GetChannels", "SendMessage", "SendReaction",
     "SendTypingEvent", "SubscribeToChannelMessages", "SubscribeToChannelChanges",
     "Unsubscribe"}

\* The requests whose `call` allocates a correlation id with inc_sequence.
IdBearing == Requests \ {"Connect", "Unsubscribe"}
Subscribing == {"SubscribeToChannelMessages", "SubscribeToChannelChanges"}

\* `exception_class` of each request class.
exception_class(cls) ==
    CASE cls = "Connect" -> "RocketConnectError"
      [] cls = "Resume" -> "RocketResumeError"
      [] cls = "Login" -> "RocketLoginError"
      [] cls = "GetChannels" -> "RocketGetChannelsError"
      [] cls = "SendMessage" -> "RocketSendMessageError"
      [] cls = "SendReaction" -> "RocketSendReactionError"
      [] cls = "SendTypingEvent" -> "RocketSendTypingEventError"
      [] cls = "SubscribeToChannelMessages" -> "RocketSubscribeToChannelMessagesError"
      [] cls = "SubscribeToChannelChanges" -> "RocketSubscribeToChannelChangesError"
      [] cls = "Unsubscribe" -> "RocketUnsubscribeError"
      [] OTHER -> "RocketChatBaseException"

\* Reading `cls.sequence_counter`: the class's own attribute when it has one,
\* else the one inherited from BaseRealtimeRequestAbstract.
read_sequence_counter(counter, cls) ==
    IF cls \in DOMAIN counter THEN counter[cls] ELSE counter[CounterOwner]

\* `cls.sequence_counter += 1`: the sum is assigned to an attribute of `cls`.
store_sequence_counter(counter, cls) ==
    [c \in DOMAIN counter \cup {cls} |->
        IF c = cls THEN read_sequence_counter(counter, cls) + 1 ELSE counter[c]]

\* inc_sequence: the counter after the call, and the value returned.
inc_sequence(counter, cls) ==
    LET after == store_sequence_counter(counter, cls)
    IN  [counter |-> after, value |-> read_sequence_counter(after, cls)]

---------------------------------------------------------------------------
(* methods.py: get_message of each request class *)

Connect_get_message ==
    PyDict(("msg" :> PyStr("connect")) @@ ("version" :> PyStr("1"))
           @@ ("support" :> PyList(<<PyStr("1")>>)))

Resume_get_message(msg_id, token) ==
    PyDict(("msg" :> PyStr("method")) @@ ("method" :> PyStr("login"))
           @@ ("id" :> PyInt(msg_id))
           @@ ("params" :> PyList(<<PyDict("resume" :> PyStr(token))>>)))

\* hashlib.sha256(password.encode()).hexdigest(): a string that is a function
\* of the password alone, kept symbolic (the digest of `password`).
sha256_hexdigest(password) == PyValue("str", "sha256:hexdigest", 0, <<PyStr(password)>>, <<>>)

\* A mutant: the password sent as it is, where its digest belongs.
Login_get_message_plaintext(msg_id, username, password) ==
    PyDict(("msg" :> PyStr("method")) @@ ("method" :> PyStr("login"))
           @@ ("id" :> PyInt(msg_id))
           @@ ("params" :> PyList(<<
                PyDict(("user" :> PyDict("username" :> PyStr(username)))
                       @@ ("password" :> PyDict(("digest" :> PyStr(password))
                                                @@ ("algorithm" :> PyStr("sha-256")))))>>)))

Login_get_message(msg_id, username, password) ==
    PyDict(("msg" :> PyStr("method")) @@ ("method" :> PyStr("login"))
           @@ ("id" :> PyInt(msg_id))
           @@ ("params" :> PyList(<<
                PyDict(("user" :> PyDict("username" :> PyStr(username)))
                       @@ ("password" :> PyDict(("digest" :> sha256_hexdigest(password))
                                                @@ ("algorithm" :> PyStr("sha-256")))))>>)))

GetChannels_get_message(msg_id) ==
    PyDict(("msg" :> PyStr("method")) @@ ("method" :> PyStr("rooms/get"))
           @@ ("id" :> PyInt(msg_id)) @@ ("params" :> PyList(<<>>)))

\* hashlib.md5(f"{msg_id}:{time.time()}".encode()).hexdigest()[:12]: the first
\* 12 characters of a digest that is a function of the id and the clock.
\* Its length is what the slice leaves of the 32 hexadecimal characters.
Md5HexDigestLen == 32
IdSliceStop == 12
slice_len(length, stop) == IF stop < length THEN stop ELSE length

md5_hexdigest_12(msg_id, now) ==
    PyValue("str", "md5:hexdigest[:12]", slice_len(Md5HexDigestLen, IdSliceStop),
            <<PyInt(msg_id), PyInt(now)>>, <<>>)

\* A mutant: `if thread_id:` where the code has `if thread_id is not None:`.
SendMessage_get_message_truthy_tmid(msg_id, channel_id, msg_text, thread_id, now) ==
    LET param == ("_id" :> md5_hexdigest_12(msg_id, now))
                 @@ ("rid" :> PyStr(channel_id)) @@ ("msg" :> PyStr(msg_text))
    IN  PyDict(("msg" :> PyStr("method")) @@ ("method" :> PyStr("sendMessage"))
               @@ ("id" :> PyInt(msg_id))
               @@ ("params" :> PyList(<<
                    PyDict(IF Truthy(thread_id)
                           THEN param @@ ("tmid" :> thread_id) ELSE param)>>)))

SendMessage_get_message(msg_id, channel_id, msg_text, thread_id, now) ==
    LET param == ("_id" :> md5_hexdigest_12(msg_id, now))
                 @@ ("rid" :> PyStr(channel_id)) @@ ("msg" :> PyStr(msg_text))
    IN  PyDict(("msg" :> PyStr("method")) @@ ("method" :> PyStr("sendMessage"))
               @@ ("id" :> PyInt(msg_id))
               @@ ("params" :> PyList(<<
                    PyDict(IF thread_id # PyNone
                           THEN param @@ ("tmid" :> thread_id) ELSE param)>>)))

SendReaction_get_message(msg_id, orig_msg_id, emoji) ==
    PyDict(("msg" :> PyStr("method")) @@ ("method" :> PyStr("setReaction"))
           @@ ("id" :> PyInt(msg_id))
           @@ ("params" :> PyList(<<PyStr(emoji), PyStr(orig_msg_id)>>)))

SendTypingEvent_get_message(msg_id, channel_id, username, is_typing) ==
    PyDict(("msg" :> PyStr("method")) @@ ("method" :> PyStr("stream-notify-room"))
           @@ ("id" :> PyInt(msg_id))
           @@ ("params" :> PyList(<<PyStr(channel_id \o "/typing"), PyStr(username),
                                    PyBool(is_typing)>>)))

SubscribeToChannelMessages_get_message(msg_id, channel_id) ==
    PyDict(("msg" :> PyStr("sub")) @@ ("id" :> PyInt(msg_id))
           @@ ("name" :> PyStr("stream-room-messages"))
           @@ ("params" :> PyList(<<PyStr(channel_id),
                    PyDict(("useCollection" :> PyBool(FALSE)) @@ ("args" :> PyList(<<>>)))>>)))

SubscribeToChannelChanges_get_message(msg_id, user_id) ==
    PyDict(("msg" :> PyStr("sub")) @@ ("id" :> PyInt(msg_id))
           @@ ("name" :> PyStr("stream-notify-user"))
           @@ ("params" :> PyList(<<PyStr(user_id \o "/rooms-changed"), PyBool(FALSE)>>)))

Unsubscribe_get_message(subscription_id) ==
    PyDict(("msg" :> PyStr("unsub")) @@ ("id" :> subscription_id))

---------------------------------------------------------------------------
(* Python's subscription v[key] and iteration, as methods.py uses them *)

\* v[key] with a string key.
subscript(v, key) ==
    CASE v.t = "dict" ->
            IF key \in DOMAIN v.m THEN Return(v.m[key]) ELSE Raise("KeyError", PyStr(key))
      [] OTHER -> Raise("TypeError", PyStr(key))

\* v[i] with an integer index i >= 0 (counted from 0, as Python counts).
index(v, i) ==
    CASE v.t = "list" ->
            IF i < Len(v.items) THEN Return(v.items[i + 1])
            ELSE Raise("IndexError", PyInt(i))
      [] v.t = "dict" -> Raise("KeyError", PyInt(i))
      [] v.t = "str" ->
            \* the character at i, kept symbolic; only the empty string is told
            \* apart from the others here
            IF v.s # "" /\ i = 0 THEN Return(PyValue("str", "char", 0, <<v, PyInt(i)>>, <<>>))
            ELSE Raise("IndexError", PyInt(i))
      [] OTHER -> Raise("TypeError", PyInt(i))

\* event.get(key): None when the key is missing; only a dict has `get`.
dict_get_or_none(v, key) ==
    IF v.t = "dict"
    THEN Return(IF key \in DOMAIN v.m THEN v.m[key] ELSE PyNone)
    ELSE Raise("AttributeError", PyStr("get"))

---------------------------------------------------------------------------
(* methods.py: raise_exceptions and parse_response *)

\* BaseRealtimeRequest.raise_exceptions
raise_exceptions(cls, response) ==
    LET error == get_field(response, <<"error">>)
    IN  IF error.kind = "raise" THEN error
        ELSE IF Truthy(error.value) THEN Raise("Exception", error.value)
        ELSE Return(PyNone)

\* A mutant: the id read at the top level of the response, not under `result`.
BaseRealtimeRequest_parse_response_top_level(response) ==
    LET id == get_field(response, <<"id">>)
    IN  IF id.kind = "raise" THEN id ELSE Return(BaseResponse(id.value))

\* BaseRealtimeRequest.parse_response
BaseRealtimeRequest_parse_response(response) ==
    LET id == get_field(response, <<"result", "id">>)
    IN  IF id.kind = "raise" THEN id ELSE Return(BaseResponse(id.value))

\* A mutant: each channel put in front of the ones before it.
RECURSIVE channels_of_reversed(_, _)
channels_of_reversed(items, done) ==
    IF items = <<>> THEN Return(PyList(done))
    ELSE LET id == subscript(Head(items), "_id")
             type == subscript(Head(items), "t")
         IN  IF id.kind = "raise" THEN id
             ELSE IF type.kind = "raise" THEN type
             ELSE channels_of_reversed(Tail(items),
                                       <<Channel(id.value, type.value)>> \o done)

\* Channel(id=r["_id"], type=r["t"]) for the items of a list, in order, stopped
\* by the first exception.
RECURSIVE channels_of(_, _)
channels_of(items, done) ==
    IF items = <<>> THEN Return(PyList(done))
    ELSE LET id == subscript(Head(items), "_id")
             type == subscript(Head(items), "t")
         IN  IF id.kind = "raise" THEN id
             ELSE IF type.kind = "raise" THEN type
             ELSE channels_of(Tail(items), Append(done, Channel(id.value, type.value)))

\* GetChannels.parse_response
GetChannels_parse_response(response) ==
    LET result == subscript(response, "result")
    IN  IF result.kind = "raise" THEN result
        ELSE CASE result.value.t = "list" -> channels_of(result.value.items, <<>>)
               \* iterating a dict yields its keys, a str its characters: r["_id"]
               \* of a string raises TypeError; nothing is iterated when empty
               [] result.value.t \in {"dict", "str"} ->
                    IF Truthy(result.value) THEN Raise("TypeError", PyStr("_id"))
                    ELSE Return(PyList(<<>>))
               [] OTHER -> Raise("TypeError", PyStr("not iterable"))

\* cls.parse_response, as `call` resolves it.
parse_response(cls, response) ==
    IF cls = "GetChannels" THEN GetChannels_parse_response(response)
    ELSE BaseRealtimeRequest_parse_response(response)

---------------------------------------------------------------------------
(* methods.py: the handlers _wrap builds.  A handler ends by raising, by   *)
(* returning without the callback, or by calling the callback with `args`. *)

Callback(args) == [kind |-> "callback", exc |-> "", value |-> PyNone, args |-> args]
NoCallback(outcome) ==
    [kind |-> outcome.kind, exc |-> outcome.exc, value |-> outcome.value, args |-> <<>>]

\* A mutant: the arguments handed over in the order the handler reads them.
messages_callback_args_as_read(channel_id, sender_id, msg_id, thread_id, msg, qualifier) ==
    <<msg_id, channel_id, thread_id, sender_id, msg, qualifier>>

\* callback(channel_id, sender_id, msg_id, thread_id, msg, qualifier)
messages_callback_args(channel_id, sender_id, msg_id, thread_id, msg, qualifier) ==
    <<channel_id, sender_id, msg_id, thread_id, msg, qualifier>>

\* SubscribeToChannelMessages._wrap(callback): fn(msg), from the event on.
SubscribeToChannelMessages_unwrap(event) ==
    LET msg_id == subscript(event, "_id")
        channel_id == subscript(event, "rid")
        thread_id == dict_get_or_none(event, "tmid")
        u == subscript(event, "u")
        sender_id == subscript(u.value, "_id")
        msg == subscript(event, "msg")
        qualifier == dict_get_or_none(event, "t")
    IN  IF msg_id.kind = "raise" THEN NoCallback(msg_id)
        ELSE IF channel_id.kind = "raise" THEN NoCallback(channel_id)
        ELSE IF thread_id.kind = "raise" THEN NoCallback(thread_id)
        ELSE IF u.kind = "raise" THEN NoCallback(u)
        ELSE IF sender_id.kind = "raise" THEN NoCallback(sender_id)
        ELSE IF msg.kind = "raise" THEN NoCallback(msg)
        ELSE IF qualifier.kind = "raise" THEN NoCallback(qualifier)
        ELSE Callback(messages_callback_args(channel_id.value, sender_id.value,
                          msg_id.value, thread_id.value, msg.value, qualifier.value))

\* msg["fields"]["args"]
fields_args(msg) ==
    LET fields == subscript(msg, "fields")
    IN  IF fields.kind = "raise" THEN fields ELSE subscript(fields.value, "args")

\* SubscribeToChannelMessages._wrap(callback): fn(msg)
SubscribeToChannelMessages_fn(msg) ==
    LET args == fields_args(msg)
        event == index(args.value, 0)
    IN  IF args.kind = "raise" THEN NoCallback(args)
        ELSE IF event.kind = "raise" THEN NoCallback(event)
        ELSE SubscribeToChannelMessages_unwrap(event.value)

\* A mutant: the handler does not look at the first element of the payload.
is_removed_never(first) == FALSE

\* payload[0] == "removed"
is_removed(first) == first = PyStr("removed")

\* SubscribeToChannelChanges._wrap(callback): fn(msg)
SubscribeToChannelChanges_fn(msg) ==
    LET payload == fields_args(msg)
        first == index(payload.value, 0)
        second == index(payload.value, 1)
        channel_id == subscript(second.value, "_id")
        channel_type == subscript(second.value, "t")
    IN  IF payload.kind = "raise" THEN NoCallback(payload)
        ELSE IF first.kind = "raise" THEN NoCallback(first)
        ELSE IF is_removed(first.value) THEN NoCallback(Return(PyNone))
        ELSE IF second.kind = "raise" THEN NoCallback(second)
        ELSE IF channel_id.kind = "raise" THEN NoCallback(channel_id)
        ELSE IF channel_type.kind = "raise" THEN NoCallback(channel_type)
        ELSE Callback(<<channel_id.value, channel_type.value>>)

\* cls._wrap(callback), applied to a push frame.
wrapped_fn(cls, msg) ==
    IF cls = "SubscribeToChannelMessages" THEN SubscribeToChannelMessages_fn(msg)
    ELSE SubscribeToChannelChanges_fn(msg)

---------------------------------------------------------------------------
(* Bounds, and the inputs the callers and the transport choose among *)

NumTasks == 2       \* logical tasks that may each be inside a `call`
MaxCalls == 3       \* calls started in one run
MaxPushes == 1      \* push frames delivered while calls are running
MaxFrames == 3      \* push frames delivered to handlers used on their own
MaxPathLen == 3     \* segments of a get_field path

Tasks == 1 .. NumTasks

Tokens == {"tok"}
Usernames == {"user"}
Passwords == {"pass"}
ChannelIds == {"c1"}
Texts == {"hi"}
ThreadIds == {PyNone, PyStr("t1")}
OrigMessageIds == {"m1"}
Emojis == {":smile:"}
UserIds == {"u1"}
Times == {1}
TypingFlags == {TRUE}

\* What the transport resolves a call with: the content of the response.
ErrorDetail == PyDict("message" :> PyStr("denied"))
ChannelItem(id, type) == PyDict(("_id" :> PyStr(id)) @@ ("t" :> PyStr(type)))
ResponseContents ==
    {PyNone,
     PyDict("result" :> PyDict("id" :> PyStr("123"))),
     PyDict("error" :> ErrorDetail),
     PyDict(("error" :> ErrorDetail) @@ ("result" :> PyList(<<ChannelItem("a", "c")>>))),
     PyDict("result" :> PyList(<<ChannelItem("a", "c"), ChannelItem("b", "p")>>)),
     PyDict("result" :> PyStr("ok"))}

HasError(response) == "error" \in DOMAIN response.m

---------------------------------------------------------------------------
(* The state machine: tasks running `call`, and the transport *)

Idle == [pc |-> "idle", cls |-> "", msg_id |-> PyNone, response |-> PyNone,
         outcome |-> Return(PyNone)]

Awaiting(cls, msg_id) ==
    [pc |-> "awaiting", cls |-> cls, msg_id |-> msg_id, response |-> PyNone,
     outcome |-> Return(PyNone)]

\* transport.call_method(msg) and transport.call_method(msg, msg_id)
call_method(msg, msg_id) == [fn |-> "call_method", msg |-> msg, msg_id |-> msg_id]

\* transport.create_subscription(msg, msg_id, handler)
create_subscription(msg, msg_id) ==
    [fn |-> "create_subscription", msg |-> msg, msg_id |-> msg_id]

CanCall(t) == tasks[t].pc # "awaiting" /\ Len(transport_log) < MaxCalls

\* A mutant: the envelope handed to the transport a second time.
Start_resending(t, cls, inc, invocation) ==
    /\ CanCall(t)
    /\ sequence_counter' = inc.counter
    /\ issued' = IF inc.value = 0 THEN issued
                 ELSE Append(issued, [cls |-> cls, id |-> inc.value])
    /\ tasks' = [tasks EXCEPT ![t] =
                    Awaiting(cls, IF inc.value = 0 THEN PyNone ELSE PyInt(inc.value))]
    /\ transport_log' = Append(Append(transport_log, invocation), invocation)

\* The part of a `call` before its await: the counter as inc_sequence left it
\* (`inc`, or nothing for a request that takes no id) and the envelope handed
\* to the transport; the task then waits for the transport.
Start(t, cls, inc, invocation) ==
    /\ CanCall(t)
    /\ sequence_counter' = inc.counter
    /\ issued' = IF inc.value = 0 THEN issued
                 ELSE Append(issued, [cls |-> cls, id |-> inc.value])
    /\ tasks' = [tasks EXCEPT ![t] =
                    Awaiting(cls, IF inc.value = 0 THEN PyNone ELSE PyInt(inc.value))]
    /\ transport_log' = Append(transport_log, invocation)

\* No inc_sequence: the counter stays, and no value is returned.
NoInc == [counter |-> sequence_counter, value |-> 0]

PushUnchanged == UNCHANGED <<delivered, callback_calls, gf, harness>>

Connect_call(t) ==
    /\ Start(t, "Connect", NoInc, call_method(Connect_get_message, PyNone))
    /\ UNCHANGED subscriptions /\ PushUnchanged

\* BaseRealtimeRequest.call, as Resume inherits it
Resume_call(t, token) ==
    /\ LET inc == inc_sequence(sequence_counter, "Resume")
           msg == Resume_get_message(inc.value, token)
       IN  Start(t, "Resume", inc, call_method(msg, PyInt(inc.value)))
    /\ UNCHANGED subscriptions /\ PushUnchanged

\* BaseRealtimeRequest.call, as Login inherits it
Login_call(t, username, password) ==
    /\ LET inc == inc_sequence(sequence_counter, "Login")
           msg == Login_get_message(inc.value, username, password)
       IN  Start(t, "Login", inc, call_method(msg, PyInt(inc.value)))
    /\ UNCHANGED subscriptions /\ PushUnchanged

GetChannels_call(t) ==
    /\ LET inc == inc_sequence(sequence_counter, "GetChannels")
           msg == GetChannels_get_message(inc.value)
       IN  Start(t, "GetChannels", inc, call_method(msg, PyInt(inc.value)))
    /\ UNCHANGED subscriptions /\ PushUnchanged

SendMessage_call(t, msg_text, channel_id, thread_id, now) ==
    /\ LET inc == inc_sequence(sequence_counter, "SendMessage")
           msg == SendMessage_get_message(inc.value, channel_id, msg_text, thread_id, now)
       IN  Start(t, "SendMessage", inc, call_method(msg, PyInt(inc.value)))
    /\ UNCHANGED subscriptions /\ PushUnchanged

\* SendReaction.call hands the envelope over without the id.
SendReaction_call(t, orig_msg_id, emoji) ==
    /\ LET inc == inc_sequence(sequence_counter, "SendReaction")
           msg == SendReaction_get_message(inc.value, orig_msg_id, emoji)
       IN  Start(t, "SendReaction", inc, call_method(msg, PyNone))
    /\ UNCHANGED subscriptions /\ PushUnchanged

SendTypingEvent_call(t, channel_id, username, is_typing) ==
    /\ LET inc == inc_sequence(sequence_counter, "SendTypingEvent")
           msg == SendTypingEvent_get_message(inc.value, channel_id, username, is_typing)
       IN  Start(t, "SendTypingEvent", inc, call_method(msg, PyInt(inc.value)))
    /\ UNCHANGED subscriptions /\ PushUnchanged

\* A handler registered with the transport: cls._wrap(callback) under msg_id.
Registration(cls, msg_id) == [cls |-> cls, id |-> msg_id, active |-> TRUE]

SubscribeToChannelMessages_call(t, channel_id) ==
    /\ LET inc == inc_sequence(sequence_counter, "SubscribeToChannelMessages")
           msg == SubscribeToChannelMessages_get_message(inc.value, channel_id)
       IN  /\ Start(t, "SubscribeToChannelMessages", inc,
                    create_subscription(msg, PyInt(inc.value)))
           /\ subscriptions' = Append(subscriptions,
                    Registration("SubscribeToChannelMessages", PyInt(inc.value)))
    /\ PushUnchanged

SubscribeToChannelChanges_call(t, user_id) ==
    /\ LET inc == inc_sequence(sequence_counter, "SubscribeToChannelChanges")
           msg == SubscribeToChannelChanges_get_message(inc.value, user_id)
       IN  /\ Start(t, "SubscribeToChannelChanges", inc,
                    create_subscription(msg, PyInt(inc.value)))
           /\ subscriptions' = Append(subscriptions,
                    Registration("SubscribeToChannelChanges", PyInt(inc.value)))
    /\ PushUnchanged

\* The handles earlier subscribe calls returned to their callers.
Handles ==
    {tasks[u].outcome.value.m["id"] :
        u \in {v \in Tasks : /\ tasks[v].pc = "done"
                             /\ tasks[v].cls \in Subscribing
                             /\ tasks[v].outcome.kind = "return"}}

\* The transport drops the handlers registered under an id it is told to unsub.
Unsubscribe_call(t, subscription_id) ==
    /\ Start(t, "Unsubscribe", NoInc,
             call_method(Unsubscribe_get_message(subscription_id), PyNone))
    /\ subscriptions' = [i \in DOMAIN subscriptions |->
            IF subscriptions[i].id = subscription_id
            THEN [subscriptions[i] EXCEPT !.active = FALSE] ELSE subscriptions[i]]
    /\ PushUnchanged

\* A subscribe call ending as BaseRealtimeRequest.call ends: with the id of the
\* response, which a subscription does not have.
call_after_await_parsed(cls, msg_id, response) ==
    CASE cls \in {"Resume", "Login"} ->
            LET raised == raise_exceptions(cls, response)
            IN  IF raised.kind = "raise" THEN raised ELSE parse_response(cls, response)
      [] cls = "GetChannels" -> parse_response(cls, response)
      [] cls \in {"SendMessage", "SendReaction", "SendTypingEvent"} -> Return(PyNone)
      [] cls \in Subscribing -> parse_response(cls, response)
      [] cls \in {"Connect", "Unsubscribe"} -> Return(response)

\* The part of each `call` after its await, given what the transport resolved
\* the await with: how the call ends for its caller.
call_after_await(cls, msg_id, response) ==
    CASE cls \in {"Resume", "Login"} ->
            LET raised == raise_exceptions(cls, response)
            IN  IF raised.kind = "raise" THEN raised ELSE parse_response(cls, response)
      [] cls = "GetChannels" -> parse_response(cls, response)
      [] cls \in {"SendMessage", "SendReaction", "SendTypingEvent"} -> Return(PyNone)
      [] cls \in Subscribing -> Return(BaseResponse(msg_id))
      [] cls \in {"Connect", "Unsubscribe"} -> Return(response)

\* The transport resolves the await of task t with a response.
Resolve(t, content) ==
    /\ tasks[t].pc = "awaiting"
    /\ tasks[t].cls \in Subscribing => content = PyNone
    /\ LET response == TransportResponse(content)
       IN  tasks' = [tasks EXCEPT ![t] =
                [pc |-> "done", cls |-> tasks[t].cls, msg_id |-> tasks[t].msg_id,
                 response |-> response,
                 outcome |-> call_after_await(tasks[t].cls, tasks[t].msg_id, response)]]
    /\ UNCHANGED <<sequence_counter, issued, transport_log, subscriptions>>
    /\ PushUnchanged

\* The connection drops while task t waits: the await raises, and so does the call.
TransportFails(t) ==
    /\ tasks[t].pc = "awaiting"
    /\ tasks' = [tasks EXCEPT ![t] =
            [pc |-> "done", cls |-> tasks[t].cls, msg_id |-> tasks[t].msg_id,
             response |-> PyNone, outcome |-> Raise("ConnectionError", PyNone)]]
    /\ UNCHANGED <<sequence_counter, issued, transport_log, subscriptions>>
    /\ PushUnchanged

---------------------------------------------------------------------------
(* Push frames and their delivery to the registered handlers *)

Frame(args) ==
    PyDict(("msg" :> PyStr("changed"))
           @@ ("fields" :> PyDict(("eventName" :> PyStr("stream")) @@ ("args" :> args))))

\* A room message, with `tmid` and `t` when they are given.
MessageEvent(id, tmid, t) ==
    LET required == ("_id" :> PyStr(id)) @@ ("rid" :> PyStr("c1"))
                    @@ ("u" :> PyDict(("_id" :> PyStr("u1")) @@ ("username" :> PyStr("user"))))
                    @@ ("msg" :> PyStr("hello " \o id))
        with_tmid == IF tmid = "absent" THEN required
                     ELSE required @@ ("tmid" :> (IF tmid = "null" THEN PyNone ELSE PyStr(tmid)))
    IN  PyDict(IF t = "absent" THEN with_tmid
               ELSE with_tmid @@ ("t" :> (IF t = "null" THEN PyNone ELSE PyStr(t))))

PushedMessageIds == {"m1", "m2"}
Optionals == {<<"absent", "absent">>, <<"null", "null">>, <<"t1", "uj">>}

WellFormedMessageFrames ==
    {Frame(PyList(<<MessageEvent(id, o[1], o[2])>>)) : id \in PushedMessageIds, o \in Optionals}

\* Frames the handler cannot unwrap: no event, or an event without its sender.
MalformedMessageFrames ==
    {Frame(PyList(<<>>)),
     Frame(PyList(<<PyDict(("_id" :> PyStr("m3")) @@ ("rid" :> PyStr("c1"))
                           @@ ("msg" :> PyStr("hello")))>>))}

Room(id, type) == PyDict(("_id" :> PyStr(id)) @@ ("t" :> PyStr(type)) @@ ("name" :> PyStr("general")))
Rooms == {Room("c1", "c"), Room("c2", "p")}
ChangeKinds == {"added", "removed", "updated"}

WellFormedChangeFrames ==
    {Frame(PyList(<<PyStr(kind), room>>)) : kind \in ChangeKinds, room \in Rooms}

\* Frames without the second element.
MalformedChangeFrames == {Frame(PyList(<<PyStr("added")>>)), Frame(PyList(<<PyStr("removed")>>))}

FramesFor(cls) ==
    IF cls = "SubscribeToChannelMessages"
    THEN WellFormedMessageFrames \cup MalformedMessageFrames
    ELSE WellFormedChangeFrames \cup MalformedChangeFrames

\* How the user's callback may end.
CallbackOutcomes == {Return(PyNone), Raise("RuntimeError", PyStr("callback failed"))}

\* A mutant: the handler calls the callback again with the arguments it last used.
invoke_callback_repeating(calls, sub, h) ==
    IF h.kind = "callback" THEN Append(calls, [sub |-> sub, args |-> h.args])
    ELSE IF calls # <<>> THEN Append(calls, calls[Len(calls)])
    ELSE calls

\* `return callback(...)`: the handler calls the callback, once, before it
\* returns; a handler that raised or returned earlier does not call it.
invoke_callback(calls, sub, h) ==
    IF h.kind = "callback" THEN Append(calls, [sub |-> sub, args |-> h.args]) ELSE calls

\* The transport hands a push frame to handler i, which runs to its end: the
\* handler's outcome is the callback's when it calls the callback.
Deliver(i, frame, callback_outcome) ==
    /\ i \in DOMAIN subscriptions
    /\ subscriptions[i].active
    /\ frame \in FramesFor(subscriptions[i].cls)
    /\ LET h == wrapped_fn(subscriptions[i].cls, frame)
       IN  /\ h.kind # "callback" => callback_outcome = Return(PyNone)
           /\ callback_calls' = invoke_callback(callback_calls, i, h)
           /\ delivered' = Append(delivered,
                [sub |-> i, frame |-> frame,
                 outcome |-> IF h.kind = "callback" THEN callback_outcome
                             ELSE [kind |-> h.kind, exc |-> h.exc, value |-> h.value],
                 calls_after |-> Len(callback_calls')])
    /\ UNCHANGED <<sequence_counter, tasks, issued, transport_log, subscriptions, gf,
                   harness>>

---------------------------------------------------------------------------
(* The get_field harness: one payload, one path, one application *)

Keys == {"result", "id"}
Leaves == {PyStr("123"), PyStr(""), PyInt(0), PyList(<<>>), PyNone}
DictsOver(values) == {PyDict(m) : m \in UNION {[D -> values] : D \in SUBSET Keys}}

\* Payloads nest dicts in dicts: {"result": {"id": "123"}} is one of them.
Payloads == DictsOver(Leaves \cup DictsOver(Leaves)) \cup {PyNone}
Paths == UNION {[1 .. n -> Keys] : n \in 0 .. MaxPathLen}

GfOff == [pc |-> "off", content |-> PyNone, fields |-> <<>>, result |-> Return(PyNone)]

GetField ==
    /\ gf.pc = "ready"
    /\ gf' = [gf EXCEPT !.pc = "done",
                        !.result = get_field(TransportResponse(gf.content), gf.fields)]
    /\ UNCHANGED <<sequence_counter, tasks, issued, transport_log, subscriptions,
                   delivered, callback_calls, harness>>

---------------------------------------------------------------------------
(* The parse_response harness: one class, one response, one application *)

MaxChannels == 3    \* items of a `result` list

\* The classes whose parse_response is a plain method (Connect's is a coroutine
\* function that `call` never runs).
Parsing == Requests \ {"Connect"}

\* Items of a rooms/get result; the last one lacks its `t`.
ResultItems == {ChannelItem("a", "c"), ChannelItem("b", "p"), PyDict("_id" :> PyStr("x"))}
ResultLists == UNION {[1 .. n -> ResultItems] : n \in 0 .. MaxChannels}
ParseContents == Payloads \cup {PyDict("result" :> PyList(items)) : items \in ResultLists}

ParseResponse ==
    /\ harness.pc = "ready"
    /\ harness.fn = "parse_response"
    /\ harness' = [harness EXCEPT
            !.pc = "done",
            !.result = parse_response(harness.cls, TransportResponse(harness.content))]
    /\ UNCHANGED <<sequence_counter, tasks, issued, transport_log, subscriptions,
                   delivered, callback_calls, gf>>

---------------------------------------------------------------------------
(* The get_message harness: one class, one set of arguments, two invocations *)

MaxMsgId == 2       \* correlation ids handed to a builder

MsgIds == 1 .. MaxMsgId
BuilderUsernames == Usernames \cup {"admin"}
BuilderPasswords == Passwords \cup {"hunter2"}
BuilderThreadIds == ThreadIds \cup {PyStr("")}
BuilderTypingFlags == {TRUE, FALSE}
SubscriptionIds == {PyInt(1), PyStr("7")}
ClockReadings == {1, 2}

NoArgs ==
    [token |-> "", username |-> "", password |-> "", channel_id |-> "", msg_text |-> "",
     thread_id |-> PyNone, orig_msg_id |-> "", emoji |-> "", is_typing |-> FALSE,
     user_id |-> "", subscription_id |-> PyNone]

\* The arguments get_message of each class takes after msg_id.
BuilderArgs(cls) ==
    CASE cls = "Resume" -> {[NoArgs EXCEPT !.token = tok] : tok \in Tokens}
      [] cls = "Login" ->
            {[NoArgs EXCEPT !.username = u, !.password = p] :
                u \in BuilderUsernames, p \in BuilderPasswords}
      [] cls = "SendMessage" ->
            {[NoArgs EXCEPT !.channel_id = c, !.msg_text = x, !.thread_id = th] :
                c \in ChannelIds, x \in Texts, th \in BuilderThreadIds}
      [] cls = "SendReaction" ->
            {[NoArgs EXCEPT !.orig_msg_id = o, !.emoji = e] :
                o \in OrigMessageIds, e \in Emojis}
      [] cls = "SendTypingEvent" ->
            {[NoArgs EXCEPT !.channel_id = c, !.username = u, !.is_typing = b] :
                c \in ChannelIds, u \in Usernames, b \in BuilderTypingFlags}
      [] cls = "SubscribeToChannelMessages" ->
            {[NoArgs EXCEPT !.channel_id = c] : c \in ChannelIds}
      [] cls = "SubscribeToChannelChanges" ->
            {[NoArgs EXCEPT !.user_id = u] : u \in UserIds}
      [] cls = "Unsubscribe" ->
            {[NoArgs EXCEPT !.subscription_id = i] : i \in SubscriptionIds}
      [] OTHER -> {NoArgs}

\* cls.get_message(msg_id, *args), the clock reading `now` when it is invoked.
get_message(cls, msg_id, a, now) ==
    CASE cls = "Connect" -> Connect_get_message
      [] cls = "Resume" -> Resume_get_message(msg_id, a.token)
      [] cls = "Login" -> Login_get_message(msg_id, a.username, a.password)
      [] cls = "GetChannels" -> GetChannels_get_message(msg_id)
      [] cls = "SendMessage" ->
            SendMessage_get_message(msg_id, a.channel_id, a.msg_text, a.thread_id, now)
      [] cls = "SendReaction" -> SendReaction_get_message(msg_id, a.orig_msg_id, a.emoji)
      [] cls = "SendTypingEvent" ->
            SendTypingEvent_get_message(msg_id, a.channel_id, a.username, a.is_typing)
      [] cls = "SubscribeToChannelMessages" ->
            SubscribeToChannelMessages_get_message(msg_id, a.channel_id)
      [] cls = "SubscribeToChannelChanges" ->
            SubscribeToChannelChanges_get_message(msg_id, a.user_id)
      [] cls = "Unsubscribe" -> Unsubscribe_get_message(a.subscription_id)

\* A mutant: a builder that takes its id from the counter itself.
BuildEnvelope_allocating ==
    /\ harness.pc = "ready"
    /\ harness.fn = "get_message"
    /\ harness' = [harness EXCEPT
            !.pc = "done",
            !.envelopes = [i \in 1 .. 2 |->
                get_message(harness.cls, harness.msg_id, harness.args, harness.now[i])]]
    /\ sequence_counter' = inc_sequence(sequence_counter, harness.cls).counter
    /\ UNCHANGED <<tasks, issued, transport_log, subscriptions, delivered,
                   callback_calls, gf>>

\* get_message invoked twice with the same arguments, the clock reading
\* now[1] the first time and now[2] the second.
BuildEnvelope ==
    /\ harness.pc = "ready"
    /\ harness.fn = "get_message"
    /\ harness' = [harness EXCEPT
            !.pc = "done",
            !.envelopes = [i \in 1 .. 2 |->
                get_message(harness.cls, harness.msg_id, harness.args, harness.now[i])]]
    /\ UNCHANGED <<sequence_counter, tasks, issued, transport_log, subscriptions,
                   delivered, callback_calls, gf>>

HarnessOff == [pc |-> "off"]

---------------------------------------------------------------------------
(* Specifications *)

InitCore ==
    /\ sequence_counter = (CounterOwner :> 0)
    /\ tasks = [t \in Tasks |-> Idle]
    /\ issued = <<>>
    /\ transport_log = <<>>
    /\ delivered = <<>>
    /\ callback_calls = <<>>

\* The program as a client runs it: tasks calling requests over one transport.
Init ==
    /\ InitCore
    /\ subscriptions = <<>>
    /\ gf = GfOff
    /\ harness = HarnessOff

Next ==
    \/ \E t \in Tasks : Connect_call(t)
    \/ \E t \in Tasks, token \in Tokens : Resume_call(t, token)
    \/ \E t \in Tasks, username \in Usernames, password \in Passwords :
            Login_call(t, username, password)
    \/ \E t \in Tasks : GetChannels_call(t)
    \/ \E t \in Tasks, text \in Texts, channel_id \in ChannelIds,
          thread_id \in ThreadIds, now \in Times :
            SendMessage_call(t, text, channel_id, thread_id, now)
    \/ \E t \in Tasks, orig \in OrigMessageIds, emoji \in Emojis :
            SendReaction_call(t, orig, emoji)
    \/ \E t \in Tasks, channel_id \in ChannelIds, username \in Usernames,
          is_typing \in TypingFlags :
            SendTypingEvent_call(t, channel_id, username, is_typing)
    \/ \E t \in Tasks, channel_id \in ChannelIds :
            SubscribeToChannelMessages_call(t, channel_id)
    \/ \E t \in Tasks, user_id \in UserIds : SubscribeToChannelChanges_call(t, user_id)
    \/ \E t \in Tasks, handle \in Handles : Unsubscribe_call(t, handle)
    \/ \E t \in Tasks, content \in ResponseContents : Resolve(t, content)
    \/ \E t \in Tasks : TransportFails(t)
    \/ \E i \in DOMAIN subscriptions, outcome \in CallbackOutcomes :
            \E frame \in FramesFor(subscriptions[i].cls) :
                Len(delivered) < MaxPushes /\ Deliver(i, frame, outcome)

Spec == Init /\ [][Next]_vars

\* The handlers on their own, as cls._wrap(callback) returns them: one of each
\* class, each handed a sequence of push frames.
InitPush ==
    /\ InitCore
    /\ subscriptions = <<Registration("SubscribeToChannelMessages", PyInt(1)),
                         Registration("SubscribeToChannelChanges", PyInt(2))>>
    /\ gf = GfOff
    /\ harness = HarnessOff

NextPush ==
    \E i \in DOMAIN subscriptions, outcome \in CallbackOutcomes :
        \E frame \in FramesFor(subscriptions[i].cls) :
            Len(delivered) < MaxFrames /\ Deliver(i, frame, outcome)

SpecPush == InitPush /\ [][NextPush]_vars

\* get_field on its own, over every payload and path within the bounds.
InitField ==
    /\ InitCore
    /\ subscriptions = <<>>
    /\ gf \in {[pc |-> "ready", content |-> c, fields |-> f, result |-> Return(PyNone)] :
                c \in Payloads, f \in Paths}
    /\ harness = HarnessOff

NextField == GetField

SpecField == InitField /\ [][NextField]_vars

\* parse_response on its own, over every class and every response within the bounds.
InitParse ==
    /\ InitCore
    /\ subscriptions = <<>>
    /\ gf = GfOff
    /\ harness \in {[pc |-> "ready", fn |-> "parse_response", cls |-> cls,
                     content |-> c, result |-> Return(PyNone)] :
                        cls \in Parsing, c \in ParseContents}

NextParse == ParseResponse

SpecParse == InitParse /\ [][NextParse]_vars

\* get_message on its own, over every class and its arguments within the bounds.
InitBuild ==
    /\ InitCore
    /\ subscriptions = <<>>
    /\ gf = GfOff
    /\ harness \in UNION {
          {[pc |-> "ready", fn |-> "get_message", cls |-> cls, msg_id |-> id,
            args |-> a, now |-> <<now1, now2>>, envelopes |-> <<>>] :
                id \in MsgIds, a \in BuilderArgs(cls),
                now1 \in ClockReadings, now2 \in ClockReadings} : cls \in Requests}

NextBuild == BuildEnvelope

SpecBuild == InitBuild /\ [][NextBuild]_vars

---------------------------------------------------------------------------
(* Properties of the calls (checked under Spec) *)

InFlight(t) == tasks[t].pc = "awaiting" /\ tasks[t].cls \in IdBearing
Finished(t) == tasks[t].pc = "done"
\* The transport resolved the call of task t with a response.
Answered(t) == Finished(t) /\ tasks[t].response.t = "dict"
CallStyle == Requests \ Subscribing

\* C1: no two outstanding calls or active subscriptions hold the same
\* correlation id, and an id issued to one operation is never issued again to a
\* later operation, of the same kind or of another.
C1_CorrelationIdsUnique ==
    /\ \A t, u \in Tasks :
          t # u /\ InFlight(t) /\ InFlight(u) => tasks[t].msg_id # tasks[u].msg_id
    /\ \A i, j \in DOMAIN subscriptions :
          i # j /\ subscriptions[i].active /\ subscriptions[j].active
              => subscriptions[i].id # subscriptions[j].id
    /\ \A t \in Tasks, i \in DOMAIN subscriptions :
          InFlight(t) /\ tasks[t].cls \notin Subscribing /\ subscriptions[i].active
              => tasks[t].msg_id # subscriptions[i].id
    /\ \A i, j \in DOMAIN issued : i # j => issued[i].id # issued[j].id

\* C2: the values inc_sequence returns to the tasks that call it are pairwise
\* distinct, and calls made one after another return strictly increasing values.
C2_IncSequenceIncreasing ==
    \A i, j \in DOMAIN issued : i < j => issued[i].id < issued[j].id

\* C3: a call-style operation whose response carries an `error` field fails
\* with the error kind of its own class, a subtype of RocketChatBaseException.
C3_ErrorRaisesOwnKind ==
    \A t \in Tasks :
        Answered(t) /\ tasks[t].cls \in CallStyle /\ HasError(tasks[t].response)
            => /\ tasks[t].outcome.kind = "raise"
               /\ tasks[t].outcome.exc = exception_class(tasks[t].cls)
               /\ IsSubclass(tasks[t].outcome.exc, "RocketChatBaseException")

\* C4: a call-style operation whose response carries an `error` field does not
\* return normally to its caller.
C4_ErrorNeverSwallowed ==
    \A t \in Tasks :
        Answered(t) /\ tasks[t].cls \in CallStyle /\ HasError(tasks[t].response)
            => tasks[t].outcome.kind # "return"

\* C5: a call-style operation whose response carries no `error` field returns
\* normally, also when `result` or `result.id` is missing; a missing id is
\* returned as an absent id.
C5_NoErrorReturnsNormally ==
    \A t \in Tasks :
        Answered(t) /\ tasks[t].cls \in CallStyle /\ ~HasError(tasks[t].response)
            => /\ tasks[t].outcome.kind = "return"
               /\ tasks[t].cls \in {"Resume", "Login"}
                  /\ ~("result" \in DOMAIN tasks[t].response.m
                       /\ tasks[t].response.m["result"].t = "dict"
                       /\ "id" \in DOMAIN tasks[t].response.m["result"].m)
                    => tasks[t].outcome.value = BaseResponse(PyNone)

---------------------------------------------------------------------------
(* Properties of get_field (checked under SpecField) *)

GfContent == TransportResponse(gf.content)

\* Every segment of the path is a key of the mapping the segments before it lead to.
RECURSIVE EverySegmentPresent(_, _)
EverySegmentPresent(content, fields) ==
    \/ fields = <<>>
    \/ /\ content.t = "dict"
       /\ Head(fields) \in DOMAIN content.m
       /\ EverySegmentPresent(content.m[Head(fields)], Tail(fields))

\* The value stored at a path whose segments are all present.
RECURSIVE ValueAt(_, _)
ValueAt(content, fields) ==
    IF fields = <<>> THEN content ELSE ValueAt(content.m[Head(fields)], Tail(fields))

\* The path meets only mappings on its way: no segment is looked up in a
\* value that is present and is not a mapping.
RECURSIVE ThroughMappings(_, _)
ThroughMappings(content, fields) ==
    \/ fields = <<>>
    \/ /\ content.t = "dict"
       /\ Head(fields) \in DOMAIN content.m
              => ThroughMappings(content.m[Head(fields)], Tail(fields))

FalsyValues == {PyStr(""), PyInt(0), PyList(<<>>), PyDict(<<>>), PyNone}

\* C6: get_field is total: it returns a value or None and never raises, and it
\* returns None when a segment is looked up in a value that is not a mapping.
C6_GetFieldTotal ==
    gf.pc = "done"
        => /\ gf.result.kind = "return"
           /\ ~ThroughMappings(GfContent, gf.fields) => gf.result = Return(PyNone)

\* C7: on nested mappings, get_field returns the value stored at the path when
\* every segment is present and the value is truthy, and None when a segment is
\* missing or the value at the path is falsy ("", 0, [], {}).
C7_GetFieldValueOrNone ==
    gf.pc = "done" /\ ThroughMappings(GfContent, gf.fields)
        => gf.result =
              IF /\ EverySegmentPresent(GfContent, gf.fields)
                 /\ ValueAt(GfContent, gf.fields) \notin FalsyValues
              THEN Return(ValueAt(GfContent, gf.fields))
              ELSE Return(PyNone)

\* get_field has found a present, empty string at result.id and returned None.
C7_Witness ==
    /\ gf.pc = "done"
    /\ gf.content = PyDict("result" :> PyDict(("id" :> PyStr("")) @@ ("result" :> PyStr("123"))))
    /\ gf.fields = <<"result", "id">>
    /\ gf.result = Return(PyNone)

---------------------------------------------------------------------------
(* Properties of the push handlers (checked under SpecPush) *)

\* The callback invocations made while the handler ran on the k-th delivered frame.
CallsDuring(k) ==
    SubSeq(callback_calls, (IF k = 1 THEN 0 ELSE delivered[k - 1].calls_after) + 1,
           delivered[k].calls_after)

HandlerOf(k) == subscriptions[delivered[k].sub].cls
ArgsOf(k) == delivered[k].frame.m["fields"].m["args"].items
OrNone(event, key) == IF key \in DOMAIN event.m THEN event.m[key] ELSE PyNone

\* C8: the handler of SubscribeToChannelChanges does not call the callback for
\* a frame whose first argument is "removed", and otherwise calls it exactly
\* once, with the `_id` and the `t` of the second argument.
C8_ChangesHandler ==
    \A k \in DOMAIN delivered :
        HandlerOf(k) = "SubscribeToChannelChanges" /\ Len(ArgsOf(k)) >= 1
            => IF ArgsOf(k)[1] = PyStr("removed") THEN CallsDuring(k) = <<>>
               ELSE Len(ArgsOf(k)) >= 2 /\ {"_id", "t"} \subseteq DOMAIN ArgsOf(k)[2].m
                    => CallsDuring(k) =
                          <<[sub |-> delivered[k].sub,
                             args |-> <<ArgsOf(k)[2].m["_id"], ArgsOf(k)[2].m["t"]>>]>>

\* A "removed" frame went by without the callback, and an "added" frame for
\* room c1 called it with ("c1", "c").
C8_Witness ==
    /\ \E k \in DOMAIN delivered :
          /\ HandlerOf(k) = "SubscribeToChannelChanges"
          /\ ArgsOf(k) = <<PyStr("removed"), Room("c1", "c")>>
          /\ CallsDuring(k) = <<>>
    /\ \E k \in DOMAIN delivered :
          /\ HandlerOf(k) = "SubscribeToChannelChanges"
          /\ ArgsOf(k) = <<PyStr("added"), Room("c1", "c")>>
          /\ CallsDuring(k) = <<[sub |-> delivered[k].sub, args |-> <<PyStr("c1"), PyStr("c")>>]>>

\* C9: the handler of SubscribeToChannelMessages calls the callback exactly
\* once, with (rid, u._id, _id, tmid, msg, t) of the first argument in that
\* order, tmid and t being None when the frame does not carry them.
C9_MessagesHandler ==
    \A k \in DOMAIN delivered :
        /\ HandlerOf(k) = "SubscribeToChannelMessages"
        /\ Len(ArgsOf(k)) >= 1
        /\ {"_id", "rid", "u", "msg"} \subseteq DOMAIN ArgsOf(k)[1].m
        => LET event == ArgsOf(k)[1]
           IN  CallsDuring(k) =
                  <<[sub |-> delivered[k].sub,
                     args |-> <<event.m["rid"], event.m["u"].m["_id"], event.m["_id"],
                                OrNone(event, "tmid"), event.m["msg"], OrNone(event, "t")>>]>>

\* A frame without `tmid` and `t` called the callback with None for both.
C9_Witness ==
    \E k \in DOMAIN delivered :
        /\ HandlerOf(k) = "SubscribeToChannelMessages"
        /\ ArgsOf(k) = <<MessageEvent("m1", "absent", "absent")>>
        /\ CallsDuring(k) =
              <<[sub |-> delivered[k].sub,
                 args |-> <<PyStr("c1"), PyStr("u1"), PyStr("m1"), PyNone,
                            PyStr("hello m1"), PyNone>>]>>

\* C10: the callback invocations follow the delivery order: each is made while
\* the handler runs on the frame it is for, at most one per frame, and none is
\* made for a frame before or after that; nothing is kept back.
C10_CallbacksInDeliveryOrder ==
    /\ \A k \in DOMAIN delivered :
          LET h == wrapped_fn(HandlerOf(k), delivered[k].frame)
          IN  CallsDuring(k) =
                 IF h.kind = "callback"
                 THEN <<[sub |-> delivered[k].sub, args |-> h.args]>> ELSE <<>>
    /\ Len(callback_calls) = IF delivered = <<>> THEN 0
                             ELSE delivered[Len(delivered)].calls_after

\* Three frames reached the messages handler: m1, one it could not unwrap, m2;
\* the callback saw m1 and then m2.
C10_Witness ==
    /\ Len(delivered) = 3
    /\ \A k \in 1 .. 3 : HandlerOf(k) = "SubscribeToChannelMessages"
    /\ ArgsOf(1) = <<MessageEvent("m1", "absent", "absent")>>
    /\ ArgsOf(2) = <<>>
    /\ ArgsOf(3) = <<MessageEvent("m2", "t1", "uj")>>
    /\ Len(callback_calls) = 2
    /\ callback_calls[1].args[3] = PyStr("m1")
    /\ callback_calls[2].args[3] = PyStr("m2")

---------------------------------------------------------------------------
(* Subscriptions and their handles (checked under Spec) *)

StreamName(cls) ==
    IF cls = "SubscribeToChannelMessages" THEN PyStr("stream-room-messages")
    ELSE PyStr("stream-notify-user")

SubscribeInvocations == SelectSeq(transport_log, LAMBDA e : e.fn = "create_subscription")
IsUnsub(e) == e.msg.m["msg"] = PyStr("unsub")
LastInvocation == transport_log'[Len(transport_log')]

\* Every create_subscription got a `sub` envelope and the id in it, the k-th
\* registration is the k-th of them, and the handle a subscribe call returned
\* holds the id the call allocated, sent and registered.
C11_HandleIsAllocatedId ==
    /\ \A k \in DOMAIN SubscribeInvocations :
          LET e == SubscribeInvocations[k]
          IN  /\ e.msg.m["msg"] = PyStr("sub")
              /\ e.msg_id.t = "int"
              /\ e.msg.m["id"] = e.msg_id
    /\ Len(subscriptions) = Len(SubscribeInvocations)
    /\ \A k \in DOMAIN subscriptions :
          /\ subscriptions[k].id = SubscribeInvocations[k].msg_id
          /\ StreamName(subscriptions[k].cls) = SubscribeInvocations[k].msg.m["name"]
    /\ \A t \in Tasks :
          Finished(t) /\ tasks[t].cls \in Subscribing /\ tasks[t].outcome.kind = "return"
              => /\ tasks[t].outcome.value = BaseResponse(tasks[t].msg_id)
                 /\ \E k \in DOMAIN issued :
                        issued[k] = [cls |-> tasks[t].cls, id |-> tasks[t].msg_id.n]
                 /\ \E k \in DOMAIN subscriptions :
                        /\ subscriptions[k].cls = tasks[t].cls
                        /\ subscriptions[k].id = tasks[t].outcome.value.m["id"]

\* A step that sends an `unsub` envelope is the start of an Unsubscribe call
\* with a handle, whose id the envelope carries; a registration ends only in
\* such a step, and a push delivery sends nothing and ends no registration.
C11_UnsubStep ==
    /\ transport_log' # transport_log /\ IsUnsub(LastInvocation)
          => /\ \E t \in Tasks : /\ tasks[t].pc # "awaiting"
                                 /\ tasks'[t] = Awaiting("Unsubscribe", PyNone)
             /\ \E handle \in Handles :
                    LastInvocation.msg =
                        PyDict(("msg" :> PyStr("unsub")) @@ ("id" :> handle))
    /\ \A k \in DOMAIN subscriptions :
          subscriptions[k].active /\ ~subscriptions'[k].active
              => /\ transport_log' # transport_log
                 /\ IsUnsub(LastInvocation)
                 /\ LastInvocation.msg.m["id"] = subscriptions[k].id
    /\ delivered' # delivered
          => transport_log' = transport_log /\ subscriptions' = subscriptions

\* C11: a subscribe call returns a handle whose id is the correlation id it
\* allocated, put in the `sub` envelope and registered with create_subscription;
\* an Unsubscribe with that handle sends an `unsub` envelope with that id, and
\* nothing but an Unsubscribe call sends an `unsub` envelope: a failing callback
\* leaves the subscription registered.
C11_SubscriptionHandles == []C11_HandleIsAllocatedId /\ [][C11_UnsubStep]_vars

\* A callback failed on a push of subscription 1, and later an Unsubscribe with
\* the handle of subscription 1 sent its id.
C11_Witness ==
    /\ Len(delivered) = 1
    /\ delivered[1].sub = 1
    /\ delivered[1].outcome = Raise("RuntimeError", PyStr("callback failed"))
    /\ Len(transport_log) = 2
    /\ transport_log[2].msg = PyDict(("msg" :> PyStr("unsub")) @@ ("id" :> subscriptions[1].id))
    /\ ~subscriptions[1].active

---------------------------------------------------------------------------
(* Properties of parse_response (checked under SpecParse) *)

Parsed == harness.pc = "done" /\ harness.fn = "parse_response"
ParsedContent == TransportResponse(harness.content)
ResultId == <<"result", "id">>

\* The classes that take BaseRealtimeRequest.parse_response and are called
\* through call_method.
BaseParsing == {"Resume", "Login", "SendMessage", "SendReaction", "SendTypingEvent",
                "Unsubscribe"}

\* C12 as stated: for Resume, Login, SendMessage, SendReaction, SendTypingEvent
\* and Unsubscribe, parse_response of a response returns a record whose id is
\* the value at result.id of that response.
C12_IdIsResultId ==
    Parsed /\ harness.cls \in BaseParsing /\ EverySegmentPresent(ParsedContent, ResultId)
        => harness.result = Return(BaseResponse(ValueAt(ParsedContent, ResultId)))

\* C12, amended: the record's id is the value at result.id when that value is
\* truthy, and None when it is falsy ("", 0, [], {}).
C12_IdIsResultIdOrNone ==
    Parsed /\ harness.cls \in BaseParsing /\ EverySegmentPresent(ParsedContent, ResultId)
        => harness.result =
              Return(BaseResponse(IF ValueAt(ParsedContent, ResultId) \in FalsyValues
                                  THEN PyNone
                                  ELSE ValueAt(ParsedContent, ResultId)))

C12_Witness ==
    /\ Parsed
    /\ harness.cls = "SendMessage"
    /\ harness.content = PyDict("result" :> PyDict("id" :> PyInt(0)))
    /\ harness.result = Return(BaseResponse(PyNone))

WellFormedItem(r) == r.t = "dict" /\ {"_id", "t"} \subseteq DOMAIN r.m

\* C13: GetChannels.parse_response maps the `result` list to a list of channels
\* of the same length, in the same order: the i-th channel has the `_id` of the
\* i-th item as its id and the item's `t` as its type.
C13_ChannelsInOrder ==
    /\ Parsed
    /\ harness.cls = "GetChannels"
    /\ EverySegmentPresent(ParsedContent, <<"result">>)
    /\ ParsedContent.m["result"].t = "list"
    /\ \A i \in DOMAIN ParsedContent.m["result"].items :
            WellFormedItem(ParsedContent.m["result"].items[i])
    => LET items == ParsedContent.m["result"].items
       IN  /\ harness.result.kind = "return"
           /\ harness.result.value.t = "list"
           /\ Len(harness.result.value.items) = Len(items)
           /\ \A i \in DOMAIN items :
                 harness.result.value.items[i] = Channel(items[i].m["_id"], items[i].m["t"])

C13_Witness ==
    /\ Parsed
    /\ harness.cls = "GetChannels"
    /\ harness.content =
          PyDict("result" :> PyList(<<ChannelItem("b", "p"), ChannelItem("a", "c")>>))
    /\ harness.result =
          Return(PyList(<<Channel(PyStr("b"), PyStr("p")), Channel(PyStr("a"), PyStr("c"))>>))

---------------------------------------------------------------------------
(* Properties of the envelope builders (checked under SpecBuild) *)

Built == harness.pc = "done" /\ harness.fn = "get_message"
Envelope == harness.envelopes[1]
FirstParam(envelope) == envelope.m["params"].items[1]

\* The values in the fields of a value: of a mapping the values of its fields,
\* of a list those of its items, of anything else the value itself.
RECURSIVE FieldValues(_)
FieldValues(v) ==
    CASE v.t = "dict" -> UNION {FieldValues(v.m[k]) : k \in DOMAIN v.m}
      [] v.t = "list" -> UNION {FieldValues(v.items[i]) : i \in DOMAIN v.items}
      [] OTHER -> {v}

\* C14: the envelope Login.get_message builds carries sha256(password) as
\* params[0].password.digest with algorithm "sha-256", and no field of the
\* envelope holds the plaintext password.
C14_PasswordOnlyAsDigest ==
    Built /\ harness.cls = "Login"
        => LET login == FirstParam(Envelope)
           IN  /\ Len(Envelope.m["params"].items) = 1
               /\ login.m["password"] =
                     PyDict(("digest" :> sha256_hexdigest(harness.args.password))
                            @@ ("algorithm" :> PyStr("sha-256")))
               /\ login.m["user"] = PyDict("username" :> PyStr(harness.args.username))
               /\ PyStr(harness.args.password) \notin FieldValues(Envelope)

C14_Witness ==
    /\ Built
    /\ harness.cls = "Login"
    /\ harness.args.password = "hunter2"
    /\ FirstParam(Envelope).m["password"].m["digest"] = sha256_hexdigest("hunter2")
    /\ PyStr("hunter2") \notin FieldValues(Envelope)

\* C15: SendMessage.get_message(id, channelId, text, threadId) builds a
\* `sendMessage` method envelope with one params object, whose rid is channelId,
\* whose msg is text, whose `_id` has exactly 12 characters and is the same for
\* the same id and clock reading, and which has a `tmid`, equal to threadId,
\* exactly when threadId is not None.
C15_SendMessageEnvelope ==
    Built /\ harness.cls = "SendMessage"
        => LET param == FirstParam(Envelope)
               a == harness.args
           IN  /\ Envelope.m["msg"] = PyStr("method")
               /\ Envelope.m["method"] = PyStr("sendMessage")
               /\ Envelope.m["id"] = PyInt(harness.msg_id)
               /\ Len(Envelope.m["params"].items) = 1
               /\ param.m["rid"] = PyStr(a.channel_id)
               /\ param.m["msg"] = PyStr(a.msg_text)
               /\ param.m["_id"].t = "str"
               /\ param.m["_id"].n = 12
               /\ param.m["_id"] = md5_hexdigest_12(harness.msg_id, harness.now[1])
               /\ harness.now[1] = harness.now[2]
                     => FirstParam(harness.envelopes[2]).m["_id"] = param.m["_id"]
               /\ IF a.thread_id # PyNone
                  THEN /\ DOMAIN param.m = {"_id", "rid", "msg", "tmid"}
                       /\ param.m["tmid"] = a.thread_id
                  ELSE DOMAIN param.m = {"_id", "rid", "msg"}

\* A thread id that is the empty string is supplied, and sent.
C15_Witness ==
    /\ Built
    /\ harness.cls = "SendMessage"
    /\ harness.args.thread_id = PyStr("")
    /\ FirstParam(Envelope).m["tmid"] = PyStr("")
    /\ FirstParam(Envelope).m["_id"].n = 12

SharedStateUntouched ==
    /\ sequence_counter = (CounterOwner :> 0)
    /\ issued = <<>>
    /\ transport_log = <<>>
    /\ subscriptions = <<>>

\* The envelope without the generated `_id` of its params object.
WithoutGeneratedId(envelope) ==
    [envelope EXCEPT !.m["params"].items[1].m =
        [k \in DOMAIN @ \ {"_id"} |-> @[k]]]

\* C16 as stated: every builder is a pure function of its arguments: two
\* invocations with equal arguments return equal envelopes, and an invocation
\* leaves the sequence counter and the rest of the shared state unchanged.
C16_BuildersPure ==
    Built => harness.envelopes[1] = harness.envelopes[2] /\ SharedStateUntouched

\* C16, amended: every builder leaves the sequence counter and the rest of the
\* shared state unchanged, and two invocations with equal arguments return
\* equal envelopes, except that SendMessage.get_message also reads the clock:
\* its two envelopes are equal but for params[0]._id, and equal when the clock
\* reading is the same.
C16_BuildersPureButForTheClock ==
    Built
        => /\ SharedStateUntouched
           /\ harness.cls # "SendMessage" \/ harness.now[1] = harness.now[2]
                 => harness.envelopes[1] = harness.envelopes[2]
           /\ harness.cls = "SendMessage"
                 => WithoutGeneratedId(harness.envelopes[1])
                      = WithoutGeneratedId(harness.envelopes[2])

C16_Witness ==
    /\ Built
    /\ harness.cls = "SendMessage"
    /\ harness.now = <<1, 2>>
    /\ harness.envelopes[1] # harness.envelopes[2]
    /\ sequence_counter = (CounterOwner :> 0)

---------------------------------------------------------------------------
(* What each call hands to the transport (checked under Spec) *)

\* The envelopes of the requests that take a correlation id.
CarriesCorrelationId(msg) == msg.m["msg"] \in {PyStr("method"), PyStr("sub")}

\* C17: for every operation whose envelope carries a correlation id, the id the
\* call hands to the transport alongside the envelope is present and equal to
\* the envelope's `id`.
C17_TransportIdIsEnvelopeId ==
    \A k \in DOMAIN transport_log :
        CarriesCorrelationId(transport_log[k].msg)
            => /\ transport_log[k].msg_id # PyNone
               /\ transport_log[k].msg_id = transport_log[k].msg.m["id"]

\* Task t enters a `call` in this step.
Starts(t) == tasks[t].pc # "awaiting" /\ tasks'[t].pc = "awaiting"

IssuedTo(cls) == SelectSeq(issued, LAMBDA i : i.cls = cls)

\* The counter of each class is the number of ids issued to its calls, and
\* the envelopes with an id handed to the transport are as many as the ids.
C18_OneEnvelopePerId ==
    /\ \A cls \in IdBearing :
          read_sequence_counter(sequence_counter, cls) = Len(IssuedTo(cls))
    /\ Len(SelectSeq(transport_log, LAMBDA e : CarriesCorrelationId(e.msg))) = Len(issued)

\* A step in which a call starts hands one envelope to the transport, and
\* advances the counter of an id-bearing class by one, or leaves the counter
\* alone for Connect and Unsubscribe; any other step (a response, with or
\* without an error, a transport failure, a push) sends nothing and leaves the
\* counter alone.
C18_CallStep ==
    /\ \A t \in Tasks :
          Starts(t)
              => LET cls == tasks'[t].cls
                 IN  /\ Len(transport_log') = Len(transport_log) + 1
                     /\ SubSeq(transport_log', 1, Len(transport_log)) = transport_log
                     /\ IF cls \in IdBearing
                        THEN /\ read_sequence_counter(sequence_counter', cls)
                                  = read_sequence_counter(sequence_counter, cls) + 1
                             /\ \A other \in Requests \ {cls} :
                                   read_sequence_counter(sequence_counter', other)
                                      = read_sequence_counter(sequence_counter, other)
                        ELSE /\ cls \in {"Connect", "Unsubscribe"}
                             /\ sequence_counter' = sequence_counter
    /\ (\A t \in Tasks : ~Starts(t))
          => transport_log' = transport_log /\ sequence_counter' = sequence_counter

\* C18: each call of an id-bearing operation advances the sequence counter by
\* exactly one and hands exactly one envelope to the transport, never a second
\* one, also when the response carries an error or the transport fails;
\* Connect.call and Unsubscribe.call hand exactly one envelope to the transport
\* and leave the sequence counter unchanged.
C18_OneEnvelopePerCall == []C18_OneEnvelopePerId /\ [][C18_CallStep]_vars

\* A Login call got an error response and raised, and later calls went on:
\* three envelopes were sent for three calls, two of them with an id, and a
\* Connect call is waiting.
C18_Witness ==
    /\ \E t \in Tasks : /\ Finished(t)
                        /\ tasks[t].cls = "Login"
                        /\ HasError(tasks[t].response)
                        /\ tasks[t].outcome.kind = "raise"
    /\ \E t \in Tasks : tasks[t].pc = "awaiting" /\ tasks[t].cls = "Connect"
    /\ Len(transport_log) = 3
    /\ issued = <<[cls |-> "Login", id |-> 1], [cls |-> "Resume", id |-> 1]>>
    /\ read_sequence_counter(sequence_counter, "Login") = 1
    /\ read_sequence_counter(sequence_counter, "Resume") = 1

===========================================================================
